---- MODULE Spec2Model ----
(***************************************************************************)
(* A model of hipaa_rag: the document loader (loader.py: type detection,   *)
(* the page generator, the page counter), the reconciliation of per-page   *)
(* results (core.py: _merge_extracted_pages) and the two document-level    *)
(* operations built on them (core.py: query, extract_structured_data).     *)
(*                                                                         *)
(* Text is a sequence of one-character strings, bytes are a sequence of    *)
(* integers 0..255, so that lower(), strip(), startswith() and `in` are    *)
(* computed, not assumed.                                                  *)
(***************************************************************************)
EXTENDS Integers, Sequences, FiniteSets, TLC

VARIABLES
    page_dicts,   \* _merge_extracted_pages: the argument, a list of per-page values
    mpos,         \* _merge_extracted_pages: index of the next entry of the for loop (1-based)
    merged,       \* _merge_extracted_pages: the local dict `merged`
    mpc,          \* _merge_extracted_pages: "loop", "done" (returned) or "raised"
    result,       \* _merge_extracted_pages: the returned mapping (NoResult before return)
    doc,          \* the file at document_path: existence, suffix, leading bytes, content
    max_pages,    \* get_pages: the argument max_pages (None or an int)
    gpc,          \* get_pages: the generator's position: "created", "suspended" (at a
                  \* yield), "finished" (returned), "raised" or "closed" (by the caller)
    gerr,         \* get_pages: the exception that ended the generator (NoError if none)
    doc_type,     \* get_pages: the local doc_type
    count,        \* get_pages: the local count
    idx,          \* get_pages: the loop variable (i of the pdf loop, n of the tiff loop)
    container,    \* get_pages: what the generator opened (doc, img or f) and whether it is open
    yielded,      \* get_pages: the pages handed to the caller so far
    rendered,     \* get_pages: the indices of the pages it has rendered, in order
    pulls,        \* get_pages: the number of times the caller has called next()
    det_result,   \* the outcome of a call of detect_document_type(path) (NotCalled before)
    cnt_result,   \* the outcome of a call of get_page_count(path) (NotCalled before)
    op,           \* the document-level operation running: "query", "extract", or "none"
    opc,          \* its position: "pull" (at the for statement), "analyze" (in the loop
                  \* body), "finish" (after the loop), "merging", "returned", "raised"
    enable_audit_log, \* SecureRAG.enable_audit_log
    page_answers, \* query: the local list page_answers
    total_tokens, \* query: the local total_tokens
    analysed,     \* the analyzer's log: the index of the page of each call it received
    responses,    \* the analyzer's log: what it answered to each call
    op_result,    \* the outcome of the operation (NotCalled while it runs)
    audit         \* the entries written to the audit log

mvars == <<page_dicts, mpos, merged, mpc, result>>

gvars == <<gpc, gerr, doc_type, count, idx, container, yielded, rendered, pulls>>

lvars == <<doc, max_pages, gpc, gerr, doc_type, count, idx, container, yielded, rendered,
           pulls, det_result, cnt_result>>

pvars == <<op, opc, enable_audit_log, page_answers, total_tokens, analysed, responses,
           op_result, audit>>

vars == <<page_dicts, mpos, merged, mpc, result,
          doc, max_pages, gpc, gerr, doc_type, count, idx, container, yielded, rendered,
          pulls, det_result, cnt_result,
          op, opc, enable_audit_log, page_answers, total_tokens, analysed, responses,
          op_result, audit>>

(***************************************************************************)
(* Bounds of the model.                                                    *)
(***************************************************************************)
\* longest list of per-page values handed to _merge_extracted_pages
MaxPageDicts == 2

\* most pages (pdf) or frames (tiff) of a document
MaxDocPages == 3

\* largest max_pages given to get_pages
MaxCap == 3

(***************************************************************************)
(* Python values: None, str, int, list, dict.                              *)
(***************************************************************************)
None == [t |-> "none"]

PyS(s) == [t |-> "str", s |-> s]

PyI(n) == [t |-> "int", n |-> n]

PyL(l) == [t |-> "list", l |-> l]

PyD(m) == [t |-> "dict", m |-> m]

EmptyMap == [k \in {} |-> None]

\* dict item assignment d[k] = v
Put(m, k, v) == [x \in (DOMAIN m) \cup {k} |-> IF x = k THEN v ELSE m[x]]

\* bool(v): the truth value Python gives a value
Truthy(v) ==
    CASE v.t = "none" -> FALSE
      [] v.t = "str"  -> v.s # <<>>
      [] v.t = "int"  -> v.n # 0
      [] v.t = "list" -> v.l # <<>>
      [] v.t = "dict" -> DOMAIN v.m # {}

\* v == w for the operands the code compares (None and "" against a value)
PyEq(v, w) ==
    /\ v.t = w.t
    /\ CASE v.t = "none" -> TRUE
         [] v.t = "str"  -> v.s = w.s
         [] v.t = "int"  -> v.n = w.n
         [] v.t = "list" -> v.l = w.l
         [] v.t = "dict" -> v.m = w.m

\* str.lower() on one character
LowerChar(c) ==
    CASE c = "A" -> "a" [] c = "B" -> "b" [] c = "C" -> "c" [] c = "D" -> "d"
      [] c = "E" -> "e" [] c = "F" -> "f" [] c = "G" -> "g" [] c = "H" -> "h"
      [] c = "I" -> "i" [] c = "J" -> "j" [] c = "K" -> "k" [] c = "L" -> "l"
      [] c = "M" -> "m" [] c = "N" -> "n" [] c = "O" -> "o" [] c = "P" -> "p"
      [] c = "Q" -> "q" [] c = "R" -> "r" [] c = "S" -> "s" [] c = "T" -> "t"
      [] c = "U" -> "u" [] c = "V" -> "v" [] c = "W" -> "w" [] c = "X" -> "x"
      [] c = "Y" -> "y" [] c = "Z" -> "z" [] OTHER -> c

\* str.lower()
Lower(s) == [i \in 1..Len(s) |-> LowerChar(s[i])]

\* the characters str.strip() removes
IsSpace(c) == c \in {" ", "\t", "\n", "\r"}

RECURSIVE LStrip(_)
LStrip(s) == IF s # <<>> /\ IsSpace(Head(s)) THEN LStrip(Tail(s)) ELSE s

RECURSIVE RStrip(_)
RStrip(s) ==
    IF s # <<>> /\ IsSpace(s[Len(s)]) THEN RStrip(SubSeq(s, 1, Len(s) - 1)) ELSE s

\* str.strip()
Strip(s) == RStrip(LStrip(s))

DigitChar(d) ==
    CASE d = 0 -> "0" [] d = 1 -> "1" [] d = 2 -> "2" [] d = 3 -> "3" [] d = 4 -> "4"
      [] d = 5 -> "5" [] d = 6 -> "6" [] d = 7 -> "7" [] d = 8 -> "8" [] d = 9 -> "9"

RECURSIVE Digits(_)
Digits(n) == IF n < 10 THEN <<DigitChar(n)>> ELSE Digits(n \div 10) \o <<DigitChar(n % 10)>>

\* str(n) of an int
IntStr(n) == IF n < 0 THEN <<"-">> \o Digits(0 - n) ELSE Digits(n)

\* repr() of a list element, as str(list) prints it
Repr(x) ==
    CASE x.t = "none" -> <<"N", "o", "n", "e">>
      [] x.t = "str"  -> <<"'">> \o x.s \o <<"'">>
      [] x.t = "int"  -> IntStr(x.n)
      [] OTHER        -> <<"?">>

RECURSIVE JoinRepr(_)
JoinRepr(l) ==
    IF l = <<>> THEN <<>>
    ELSE IF Len(l) = 1 THEN Repr(l[1])
    ELSE Repr(l[1]) \o <<",", " ">> \o JoinRepr(Tail(l))

\* str(v)
PyStr(v) ==
    CASE v.t = "none" -> <<"N", "o", "n", "e">>
      [] v.t = "str"  -> v.s
      [] v.t = "int"  -> IntStr(v.n)
      [] v.t = "list" -> <<"[">> \o JoinRepr(v.l) \o <<"]">>
      [] OTHER        -> <<"{", "}">>

\* list(dict.fromkeys(l)): duplicates removed, first occurrences kept in order
RECURSIVE Dedupe(_)
Dedupe(l) ==
    IF l = <<>> THEN <<>>
    ELSE LET init == Dedupe(SubSeq(l, 1, Len(l) - 1))
             x    == l[Len(l)]
         IN  IF \E i \in 1..Len(init) : init[i] = x THEN init ELSE Append(init, x)

(***************************************************************************)
(* core.py: the list-like taxonomy and _merge_extracted_pages.             *)
(***************************************************************************)
LIST_LIKE_FIELDS ==
    { Lower(k) : k \in {
        <<"m", "e", "d", "i", "c", "a", "t", "i", "o", "n", "s">>,
        <<"p", "r", "e", "s", "c", "r", "i", "b", "e", "d", "_",
          "m", "e", "d", "i", "c", "a", "t", "i", "o", "n", "s">>,
        <<"d", "i", "a", "g", "n", "o", "s", "e", "s">>,
        <<"a", "l", "l", "e", "r", "g", "i", "e", "s">>,
        <<"c", "o", "n", "d", "i", "t", "i", "o", "n", "s">>,
        <<"p", "r", "o", "b", "l", "e", "m", "s">> } }

\* key_lower in LIST_LIKE_FIELDS
IsListLike(k) == Lower(k) \in LIST_LIKE_FIELDS

\* a merge that leaves out the isinstance test
IsMappingSkipNothing(d) == TRUE

\* isinstance(d, dict)
IsMapping(d) == d.t = "dict"

\* [str(x).strip() for x in v if x]
StrippedTruthy(l) ==
    LET kept == SelectSeq(l, Truthy)
    IN  [i \in 1..Len(kept) |-> PyS(Strip(PyStr(kept[i])))]

\* v = [v] if v not in (None, "") else []   (for a v that is not a list)
CoerceToList(v) ==
    IF v.t = "list" THEN v.l
    ELSE IF ~(PyEq(v, None) \/ PyEq(v, PyS(<<>>))) THEN <<v>> ELSE <<>>

\* the list-like branch of the loop body, for one (k, v)
MergeListLike(m, k, v) ==
    LET vl       == CoerceToList(v)
        existing == IF k \in DOMAIN m THEN m[k] ELSE None   \* merged.get(k)
    IN  IF PyEq(existing, None)
        THEN Put(m, k, PyL(Dedupe(StrippedTruthy(vl))))
        ELSE LET el == IF existing.t = "list" THEN existing.l ELSE <<existing>>
             IN  Put(m, k, PyL(Dedupe(el \o StrippedTruthy(vl))))

\* a merge that tests str(v) without strip()
ScalarHasTextNoStrip(v) == ~PyEq(v, None) /\ PyStr(v) # <<>>

\* v is not None and str(v).strip()
ScalarHasText(v) == ~PyEq(v, None) /\ Strip(PyStr(v)) # <<>>

\* the scalar branch of the loop body, for one (k, v)
MergeScalar(m, k, v) ==
    IF k \notin DOMAIN m \/ ~Truthy(m[k])
    THEN IF ScalarHasText(v) THEN Put(m, k, v) ELSE m
    ELSE m

\* the body of `for k, v in d.items()` for one item
MergeItem(m, k, v) ==
    IF IsListLike(k) THEN MergeListLike(m, k, v) ELSE MergeScalar(m, k, v)

\* `for k, v in d.items()`: the keys of one dict are distinct and an item reads
\* and writes merged[k] only, so the order of the items does not matter
RECURSIVE MergeItems(_, _, _)
MergeItems(m, d, ks) ==
    IF ks = {} THEN m
    ELSE LET k == CHOOSE x \in ks : TRUE
         IN  MergeItems(MergeItem(m, k, d[k]), d, ks \ {k})

\* one iteration of `for d in page_dicts` on a mapping
MergeDict(m, d) == MergeItems(m, d.m, DOMAIN d.m)

\* the whole of _merge_extracted_pages as a function of its argument
RECURSIVE MergePages(_)
MergePages(pages) ==
    IF pages = <<>> THEN EmptyMap
    ELSE LET m == MergePages(SubSeq(pages, 1, Len(pages) - 1))
             d == pages[Len(pages)]
         IN  IF IsMapping(d) THEN MergeDict(m, d) ELSE m

NoResult == [t |-> "noresult"]

(***************************************************************************)
(* loader.py: signatures, extensions and detect_document_type.             *)
(***************************************************************************)
PDF_SIGNATURE == <<37, 80, 68, 70>>

PNG_SIGNATURE == <<137, 80, 78, 71, 13, 10, 26, 10>>

JPEG_SIGNATURE == <<255, 216>>

TIFF_II == <<73, 73, 42, 0>>

TIFF_MM == <<77, 77, 0, 42>>

WEBP_SIGNATURE == <<82, 73, 70, 70>>

\* b"WEBP"
WEBP_TAG == <<87, 69, 66, 80>>

\* _read_magic's default size
MagicSize == 12

\* the slice magic[:20] searched for b"WEBP"
WebpWindow == 20

IMAGE_EXTENSIONS == { <<".", "p", "n", "g">>, <<".", "j", "p", "g">>, <<".", "j", "p", "e", "g">>, <<".", "w", "e", "b", "p">>, <<".", "b", "m", "p">>, <<".", "g", "i", "f">> }

PDF_EXTENSIONS == { <<".", "p", "d", "f">> }

TIFF_EXTENSIONS == { <<".", "t", "i", "f">>, <<".", "t", "i", "f", "f">> }

\* b[:n]
Prefix(b, n) == SubSeq(b, 1, IF n < Len(b) THEN n ELSE Len(b))

\* b.startswith(sig)
StartsWith(b, sig) == Len(b) >= Len(sig) /\ SubSeq(b, 1, Len(sig)) = sig

\* sub in b
Contains(b, sub) ==
    \E i \in 1..(Len(b) - Len(sub) + 1) : SubSeq(b, i, i + Len(sub) - 1) = sub

\* the outcome of a call: a returned value or a raised exception
Returned(v) == [st |-> "returned", val |-> v]

Raised(e) == [st |-> "raised", err |-> e]

NotCalled == [st |-> "notcalled"]

FileNotFound == "FileNotFoundError: Document not found"

UnsupportedType ==
    "ValueError: Unsupported document type. Supported: PDF, TIFF, PNG, JPEG, WebP."

NoPagesInTiff == "ValueError: No pages found in TIFF"

\* fitz could not open the file as a document
FitzError == "fitz.FileDataError"

\* PIL could not identify the image
PilError == "PIL.UnidentifiedImageError"

\* the library could not render a page
RenderError == "RuntimeError: page could not be rendered"

NoError == "none"

\* _read_magic(path)
ReadMagic(d) == Prefix(d.head, MagicSize)

\* a detection that consults the extensions before it looks at the file
DetectByNameFirst(d) ==
    LET suffix == Lower(d.suffix)
    IN  IF suffix \in PDF_EXTENSIONS THEN Returned("pdf")
        ELSE IF suffix \in TIFF_EXTENSIONS THEN Returned("tiff")
        ELSE IF suffix \in IMAGE_EXTENSIONS THEN Returned("image")
        ELSE IF ~d.exists THEN Raised(FileNotFound)
        ELSE Raised(UnsupportedType)

\* detect_document_type(path)
DetectDocumentType(d) ==
    IF ~d.exists THEN Raised(FileNotFound)
    ELSE LET suffix == Lower(d.suffix)
             magic  == ReadMagic(d)
         IN  IF StartsWith(magic, PDF_SIGNATURE) \/ suffix \in PDF_EXTENSIONS
             THEN Returned("pdf")
             ELSE IF \/ StartsWith(magic, TIFF_II)
                     \/ StartsWith(magic, TIFF_MM)
                     \/ suffix \in TIFF_EXTENSIONS
             THEN Returned("tiff")
             ELSE IF \/ StartsWith(magic, PNG_SIGNATURE)
                     \/ StartsWith(magic, JPEG_SIGNATURE)
                     \/ (/\ StartsWith(magic, WEBP_SIGNATURE)
                         /\ Contains(Prefix(magic, WebpWindow), WEBP_TAG))
                     \/ suffix \in IMAGE_EXTENSIONS
             THEN Returned("image")
             ELSE Raised(UnsupportedType)

(***************************************************************************)
(* The libraries the loader calls, as far as the loader depends on them.   *)
(* A file is described by what a decoder finds in it: fmt (the container   *)
(* format, "none" when nothing decodes it), frames (its pages or frames),  *)
(* mode (the colour mode PIL reports) and corrupt (the pages whose         *)
(* rendering raises).                                                      *)
(***************************************************************************)
PilFormats == { "tiff", "png", "jpeg", "webp", "bmp", "gif" }

\* fitz.open(path): a PDF opens with its pages; whether MuPDF opens an image file
\* whose name says pdf depends on its version (by name: it fails; by content: the
\* image is a document of its frames)
FitzOpen(d) ==
    IF d.fmt = "pdf" THEN { Returned(d.frames) }
    ELSE IF d.fmt \in PilFormats THEN { Raised(FitzError), Returned(d.frames) }
    ELSE { Raised(FitzError) }

\* Image.open(path): PIL identifies the image by its content
PilOpen(d) ==
    IF d.fmt \in PilFormats
    THEN Returned([frames |-> d.frames, mode |-> d.mode, bad |-> d.corrupt])
    ELSE Raised(PilError)

\* what the generator holds open
NoContainer == [lib |-> "none", pages |-> 0, open |-> FALSE, bad |-> {}]

\* the bytes of a PNG encoding (pix.tobytes("png"), save(format="PNG")) of a frame
PngPayload(frame) == [head |-> PNG_SIGNATURE, frame |-> frame]

\* the file's own bytes
FilePayload(d) == [head |-> d.head, frame |-> 0]

(***************************************************************************)
(* loader.py: get_pages, a generator. Each operator gives what one resume  *)
(* of the generator does up to its next yield, return or raise.            *)
(***************************************************************************)
GenYield(dt, cnt, i, cont, page) ==
    [pc |-> "suspended", err |-> NoError, dtype |-> dt, count |-> cnt, idx |-> i,
     cont |-> cont, emit |-> <<page>>, drawn |-> <<page.index>>]

GenReturn(dt, cnt, i, cont) ==
    [pc |-> "finished", err |-> NoError, dtype |-> dt, count |-> cnt, idx |-> i,
     cont |-> cont, emit |-> <<>>, drawn |-> <<>>]

GenRaise(dt, cnt, i, cont, e) ==
    [pc |-> "raised", err |-> e, dtype |-> dt, count |-> cnt, idx |-> i,
     cont |-> cont, emit |-> <<>>, drawn |-> <<>>]

\* the rendering of page i raised (get_pixmap, tobytes, copy, save)
GenRenderFail(dt, cnt, i, cont) ==
    [pc |-> "raised", err |-> RenderError, dtype |-> dt, count |-> cnt, idx |-> i,
     cont |-> cont, emit |-> <<>>, drawn |-> <<i>>]

\* a cap test that never stops the loop
CapIgnored(cap, cnt) == FALSE

\* max_pages is not None and count >= max_pages
CapReached(cap, cnt) == cap.t = "int" /\ cnt >= cap.n

\* the pdf loop from page i on: `for i in range(len(doc))` with the cap test, the
\* render and the yield; leaving the try block runs doc.close()
PdfLoop(cap, i, cnt, cont) ==
    IF i < cont.pages /\ ~CapReached(cap, cnt)
    THEN IF i \in cont.bad
         THEN GenRenderFail("pdf", cnt, i, [cont EXCEPT !.open = FALSE])
         ELSE GenYield("pdf", cnt, i, cont, [index |-> i, payload |-> PngPayload(i)])
    ELSE GenReturn("pdf", cnt, i, [cont EXCEPT !.open = FALSE])

\* the tiff loop from frame n on: img.seek(n) raises EOFError past the last frame
\* of img; after the loop, count == 0 raises
TiffLoop(cap, n, cnt, cont) ==
    IF n >= cont.pages \/ CapReached(cap, cnt)
    THEN IF cnt = 0
         THEN GenRaise("tiff", cnt, n, cont, NoPagesInTiff)
         ELSE GenReturn("tiff", cnt, n, cont)
    ELSE IF n \in cont.bad
    THEN GenRenderFail("tiff", cnt, n, cont)
    ELSE GenYield("tiff", cnt, n, cont, [index |-> n, payload |-> PngPayload(n)])

\* img = Image.open(path); img.convert("RGB") for the modes RGBA and P gives an
\* image in memory, which has the one frame it was converted from
TiffImg(opened) ==
    [lib |-> "pil",
     pages |-> IF opened.mode \in {"RGBA", "P"} THEN 1 ELSE opened.frames,
     open |-> TRUE,
     bad |-> opened.bad]

\* the tiff branch up to its first yield
TiffStart(d, cap) ==
    LET o == PilOpen(d)
    IN  IF o.st = "raised"
        THEN GenRaise("tiff", 0, 0, NoContainer, o.err)
        ELSE TiffLoop(cap, 0, 0, TiffImg(o.val))

\* the single-image branch up to its yield; `with open(path)` has closed the file
\* before the yield
ImageStart(d, cap) ==
    LET f == [lib |-> "file", pages |-> 1, open |-> FALSE, bad |-> {}]
    IN  IF cap.t = "int" /\ cap.n <= 0
        THEN GenReturn("image", 0, 0, NoContainer)
        ELSE IF Lower(d.suffix) \in { <<".", "p", "n", "g">> }
        THEN GenYield("image", 0, 0, f, [index |-> 0, payload |-> FilePayload(d)])
        ELSE IF PilOpen(d).st = "raised"
        THEN GenRaise("image", 0, 0, f, PilOpen(d).err)
        ELSE GenYield("image", 0, 0, f, [index |-> 0, payload |-> PngPayload(0)])

\* the pdf branch up to its first yield
PdfStart(d, cap) ==
    { IF o.st = "raised"
      THEN GenRaise("pdf", 0, 0, NoContainer, o.err)
      ELSE PdfLoop(cap, 0, 0,
                   [lib |-> "fitz", pages |-> o.val, open |-> TRUE, bad |-> d.corrupt])
      : o \in FitzOpen(d) }

\* get_pages from its first line to its first yield, return or raise
FirstPull(d, cap) ==
    IF ~d.exists
    THEN { GenRaise("unset", 0, 0, NoContainer, FileNotFound) }
    ELSE LET dt == DetectDocumentType(d)
         IN  IF dt.st = "raised"
             THEN { GenRaise("unset", 0, 0, NoContainer, dt.err) }
             ELSE IF dt.val = "pdf" THEN PdfStart(d, cap)
             ELSE IF dt.val = "tiff" THEN { TiffStart(d, cap) }
             ELSE { ImageStart(d, cap) }

\* get_pages from a yield to the next yield, return or raise
NextPull(cap, dt, i, cnt, cont) ==
    IF dt = "pdf" THEN PdfLoop(cap, i + 1, cnt + 1, cont)
    ELSE IF dt = "tiff" THEN TiffLoop(cap, i + 1, cnt + 1, cont)
    ELSE GenReturn("image", cnt, i, cont)

\* get_page_count(path)
GetPageCount(d) ==
    IF ~d.exists THEN { Raised(FileNotFound) }
    ELSE LET dt == DetectDocumentType(d)
         IN  IF dt.st = "raised" THEN { dt }
             ELSE IF dt.val = "pdf" THEN FitzOpen(d)
             ELSE IF dt.val = "tiff"
             THEN { IF PilOpen(d).st = "raised"
                    THEN PilOpen(d)
                    ELSE Returned(PilOpen(d).val.frames) }
             ELSE { Returned(1) }

(***************************************************************************)
(* The files and arguments the model enumerates.                           *)
(***************************************************************************)
Suffixes ==
    { <<".", "p", "d", "f">>, <<".", "P", "D", "F">>, <<".", "p", "n", "g">>, <<".", "j", "p", "g">>, <<".", "j", "p", "e", "g">>, <<".", "w", "e", "b", "p">>, <<".", "b", "m", "p">>, <<".", "g", "i", "f">>, <<".", "t", "i", "f">>, <<".", "t", "i", "f", "f">>, <<".", "x", "y", "z">>, <<>> }

\* at most one page of a document fails to render
CorruptPages(n) == { {} } \cup { {i} : i \in 0..(n - 1) }

PdfContents ==
    UNION { { [head |-> PDF_SIGNATURE \o <<45, 49, 46, 55, 10, 37, 226, 227, 207>>,
               fmt |-> "pdf", frames |-> n, mode |-> "RGB", corrupt |-> c] :
               c \in CorruptPages(n) } : n \in 0..MaxDocPages }

TiffContents ==
    { [head |-> h, fmt |-> "tiff", frames |-> n, mode |-> m, corrupt |-> {}] :
        h \in { TIFF_II \o <<8, 0, 0, 0>>, TIFF_MM \o <<0, 0, 0, 8>> },
        n \in 1..MaxDocPages,
        m \in { "RGB", "P", "RGBA" } }
    \cup
    UNION { { [head |-> TIFF_II \o <<8, 0, 0, 0>>, fmt |-> "tiff", frames |-> n,
               mode |-> "RGB", corrupt |-> {i}] : i \in 0..(n - 1) } :
            n \in 1..MaxDocPages }

ImageContents ==
    { [head |-> PNG_SIGNATURE \o <<0, 0, 0, 13, 73>>, fmt |-> "png", frames |-> 1, mode |-> "RGB", corrupt |-> {}],
      [head |-> PNG_SIGNATURE \o <<0, 0, 0, 13, 73>>, fmt |-> "png", frames |-> 1, mode |-> "P", corrupt |-> {}],
      [head |-> JPEG_SIGNATURE \o <<255, 224, 0, 16>>, fmt |-> "jpeg", frames |-> 1, mode |-> "RGB", corrupt |-> {}],
      [head |-> WEBP_SIGNATURE \o <<36, 0, 0, 0>> \o WEBP_TAG \o <<86>>,
       fmt |-> "webp", frames |-> 1, mode |-> "RGBA", corrupt |-> {}],
      [head |-> <<66, 77, 70, 0, 0, 0>>, fmt |-> "bmp", frames |-> 1, mode |-> "RGB", corrupt |-> {}],
      [head |-> <<71, 73, 70, 56, 57, 97>>, fmt |-> "gif", frames |-> 1, mode |-> "P", corrupt |-> {}] }

\* files no decoder reads: empty, text, a RIFF file that is no WebP, a RIFF header
\* with the bytes WEBP at offset 4, at offset 9, a cut PDF header
OtherContents ==
    { [head |-> h, fmt |-> "none", frames |-> 0, mode |-> "none", corrupt |-> {}] :
        h \in { <<>>,
                <<78, 79, 84, 95, 65, 95, 86, 65, 76, 73, 68, 95, 70>>,
                WEBP_SIGNATURE \o <<36, 0, 0, 0, 87, 65, 86, 69>>,
                WEBP_SIGNATURE \o WEBP_TAG \o <<86, 80, 56, 32>>,
                WEBP_SIGNATURE \o <<0, 0, 0, 0, 0>> \o WEBP_TAG,
                <<37, 80, 68>> } }

Contents == PdfContents \cup TiffContents \cup ImageContents \cup OtherContents

Docs ==
    { [exists |-> TRUE, suffix |-> sfx, head |-> c.head, fmt |-> c.fmt,
       frames |-> c.frames, mode |-> c.mode, corrupt |-> c.corrupt] :
       sfx \in Suffixes, c \in Contents }
    \cup
    { [exists |-> FALSE, suffix |-> sfx, head |-> <<>>, fmt |-> "none",
       frames |-> 0, mode |-> "none", corrupt |-> {}] : sfx \in Suffixes }

Caps == { None } \cup { PyI(k) : k \in 0..MaxCap }

(***************************************************************************)
(* The loader as a state machine: one get_pages generator and its caller,  *)
(* and calls of detect_document_type and get_page_count on the same path.  *)
(***************************************************************************)
MergeIdle ==
    /\ page_dicts = <<>>
    /\ mpos = 1
    /\ merged = EmptyMap
    /\ mpc = "idle"
    /\ result = NoResult

\* no document-level operation is running
PipelineIdle ==
    /\ op = "none"
    /\ opc = "idle"
    /\ enable_audit_log = FALSE
    /\ page_answers = <<>>
    /\ total_tokens = 0
    /\ analysed = <<>>
    /\ responses = <<>>
    /\ op_result = NotCalled
    /\ audit = <<>>

GenCreated ==
    /\ gpc = "created"
    /\ gerr = NoError
    /\ doc_type = "unset"
    /\ count = 0
    /\ idx = 0
    /\ container = NoContainer
    /\ yielded = <<>>
    /\ rendered = <<>>
    /\ pulls = 0

\* get_pages(document_path, max_pages) has been called: the generator exists and
\* none of its body has run
Init ==
    /\ doc \in Docs
    /\ max_pages \in Caps
    /\ GenCreated
    /\ det_result = NotCalled
    /\ cnt_result = NotCalled
    /\ MergeIdle
    /\ PipelineIdle

\* the generator's variables after a resume that ended as r says
GenApply(r) ==
    /\ gpc' = r.pc
    /\ gerr' = r.err
    /\ doc_type' = r.dtype
    /\ count' = r.count
    /\ idx' = r.idx
    /\ container' = r.cont
    /\ yielded' = yielded \o r.emit
    /\ rendered' = rendered \o r.drawn
    /\ pulls' = pulls + 1

\* the caller's first next() (loader.py 68-137)
GenStart ==
    /\ gpc = "created"
    /\ \E r \in FirstPull(doc, max_pages) : GenApply(r)
    /\ UNCHANGED <<doc, max_pages, det_result, cnt_result>>
    /\ UNCHANGED mvars
    /\ UNCHANGED pvars

\* a later next(): the generator resumes after its yield (loader.py 86-89, 112-116, 126, 137)
GenResume ==
    /\ gpc = "suspended"
    /\ GenApply(NextPull(max_pages, doc_type, idx, count, container))
    /\ UNCHANGED <<doc, max_pages, det_result, cnt_result>>
    /\ UNCHANGED mvars
    /\ UNCHANGED pvars

\* the caller stops before the end: close() raises GeneratorExit at the yield, and
\* only the pdf branch has a finally block (loader.py 88-89)
GenClose ==
    /\ gpc \in {"created", "suspended"}
    /\ gpc' = "closed"
    /\ container' = IF gpc = "suspended" /\ doc_type = "pdf"
                    THEN [container EXCEPT !.open = FALSE]
                    ELSE container
    /\ UNCHANGED <<gerr, doc_type, count, idx, yielded, rendered, pulls>>
    /\ UNCHANGED <<doc, max_pages, det_result, cnt_result>>
    /\ UNCHANGED mvars
    /\ UNCHANGED pvars

\* detect_document_type(path) (loader.py 29-56)
CallDetect ==
    /\ det_result = NotCalled
    /\ det_result' = DetectDocumentType(doc)
    /\ UNCHANGED <<doc, max_pages, cnt_result>>
    /\ UNCHANGED gvars
    /\ UNCHANGED mvars
    /\ UNCHANGED pvars

\* get_page_count(path) (loader.py 140-170)
CallPageCount ==
    /\ cnt_result = NotCalled
    /\ \E r \in GetPageCount(doc) : cnt_result' = r
    /\ UNCHANGED <<doc, max_pages, det_result>>
    /\ UNCHANGED gvars
    /\ UNCHANGED mvars
    /\ UNCHANGED pvars

Next == GenStart \/ GenResume \/ GenClose \/ CallDetect \/ CallPageCount

Spec == Init /\ [][Next]_vars

(***************************************************************************)
(* The inputs of _merge_extracted_pages the model enumerates.              *)
(***************************************************************************)
\* a scalar-like field name
KeyName == <<"n", "a", "m", "e">>

\* a list-like field name, in another case than the taxonomy's
KeyAllergies == <<"A", "l", "l", "e", "r", "g", "i", "e", "s">>

ScalarInputs ==
    { None, PyS(<<>>), PyS(<<" ">>), PyS(<<"a">>), PyS(<<" ", "b">>), PyI(0) }

ListInputs ==
    { None, PyS(<<" ", "a">>),
      PyL(<<PyS(<<"a">>), PyS(<<"b">>)>>),
      PyL(<<PyS(<<"b">>), PyS(<<" ">>)>>),
      PyL(<<PyS(<<"a", " ">>), PyS(<<"a">>)>>) }

PageMappings ==
    { PyD(EmptyMap) }
    \cup { PyD(Put(EmptyMap, KeyName, v)) : v \in ScalarInputs }
    \cup { PyD(Put(EmptyMap, KeyAllergies, w)) : w \in ListInputs }
    \cup { PyD(Put(Put(EmptyMap, KeyName, v), KeyAllergies, w)) :
             v \in ScalarInputs, w \in ListInputs }

\* what the analyzer may hand back for a page that is not a mapping
NonMappings == { PyS(<<"x">>), PyL(<<>>) }

PageValues == PageMappings \cup NonMappings

PageLists == UNION { [1..n -> PageValues] : n \in 0..MaxPageDicts }

\* no document is being loaded
LoaderIdle ==
    /\ doc = [exists |-> FALSE, suffix |-> <<>>, head |-> <<>>, fmt |-> "none",
              frames |-> 0, mode |-> "none", corrupt |-> {}]
    /\ max_pages = None
    /\ GenCreated
    /\ det_result = NotCalled
    /\ cnt_result = NotCalled

(***************************************************************************)
(* _merge_extracted_pages as a state machine.                              *)
(***************************************************************************)
MergeInit ==
    /\ page_dicts \in PageLists
    /\ mpos = 1
    /\ merged = EmptyMap
    /\ mpc = "loop"
    /\ result = NoResult
    /\ LoaderIdle
    /\ PipelineIdle

\* one iteration of `for d in page_dicts` (core.py 263-287)
MergeLoopStep ==
    /\ mpc = "loop"
    /\ mpos <= Len(page_dicts)
    /\ LET d == page_dicts[mpos]
       IN  IF ~IsMapping(d)
           THEN /\ merged' = merged
                /\ mpc' = "loop"
           ELSE IF d.t # "dict"
           THEN \* d.items() on a value that has no items(): AttributeError
                /\ merged' = merged
                /\ mpc' = "raised"
           ELSE /\ merged' = MergeDict(merged, d)
                /\ mpc' = "loop"
    /\ mpos' = mpos + 1
    /\ UNCHANGED <<page_dicts, result>>
    /\ UNCHANGED lvars
    /\ UNCHANGED pvars

\* `return merged` (core.py 288)
MergeReturn ==
    /\ mpc = "loop"
    /\ mpos > Len(page_dicts)
    /\ mpc' = "done"
    /\ result' = PyD(merged)
    /\ UNCHANGED <<page_dicts, mpos, merged>>
    /\ UNCHANGED lvars
    /\ UNCHANGED pvars

MergeNext == MergeLoopStep \/ MergeReturn

MergeSpec == MergeInit /\ [][MergeNext]_vars

(***************************************************************************)
(* The analyzer (the vision API behind _query_single_image) and the parts  *)
(* of query and extract_structured_data that are pure.                     *)
(***************************************************************************)
ApiError == "APIError: the completion request failed"

\* response.usage is None: None has no attribute total_tokens
UsageIsNone == "AttributeError: 'NoneType' object has no attribute 'total_tokens'"

NoPagesProcessed == "ValueError: No pages processed for document"

JSONDecodeError == "JSONDecodeError"

\* a response without the attribute usage
NoUsage == [t |-> "absent"]

\* a usage object carrying total_tokens
Usage(n) == [t |-> "usage", total_tokens |-> PyI(n)]

\* what the API answers to one call: an exception, or a response with
\* choices[0].message.content and (perhaps) usage
ApiFailure == [st |-> "error", err |-> ApiError]

ApiResponse(c, u) == [st |-> "ok", content |-> c, usage |-> u]

\* a call that turns every API answer into an empty answer
QuerySingleImageSwallow(resp) == Returned([answer |-> <<>>, tokens_used |-> None])

\* _query_single_image for one API answer: (answer, tokens_used) or an exception
QuerySingleImage(resp) ==
    IF resp.st = "error" THEN Raised(resp.err)
    ELSE IF resp.usage.t = "absent"
    THEN Returned([answer |-> IF Truthy(resp.content) THEN resp.content.s ELSE <<>>,
                   tokens_used |-> None])
    ELSE IF resp.usage.t = "none" THEN Raised(UsageIsNone)
    ELSE Returned([answer |-> IF Truthy(resp.content) THEN resp.content.s ELSE <<>>,
                   tokens_used |-> resp.usage.total_tokens])

\* f"--- Page {n} ---\n"
PageLabel(n) ==
    <<"-", "-", "-", " ", "P", "a", "g", "e", " ">> \o IntStr(n) \o <<" ", "-", "-", "-", "\n">>

\* sep.join(parts)
RECURSIVE Join(_, _)
Join(parts, sep) ==
    IF parts = <<>> THEN <<>>
    ELSE IF Len(parts) = 1 THEN parts[1]
    ELSE parts[1] \o sep \o Join(Tail(parts), sep)

\* the list comprehension of core.py 208-212, from the 0-based position i on
RECURSIVE LabelledParts(_, _)
LabelledParts(answers, i) ==
    IF i >= Len(answers) THEN <<>>
    ELSE LET a == answers[i + 1]
         IN  (IF a # <<>> /\ Strip(a) # <<>> THEN << PageLabel(i + 1) \o a >> ELSE <<>>)
             \o LabelledParts(answers, i + 1)

\* a combination that labels every page, blank or not
LabelledPartsKeepBlank(answers) ==
    [i \in 1..Len(answers) |-> PageLabel(i) \o answers[i]]

\* the non-blank pages' labelled blocks
Parts(answers) == LabelledParts(answers, 0)

\* the combined answer of query (core.py 204-213), for a non-empty page_answers
CombineAnswers(answers) ==
    IF Len(answers) = 1 THEN answers[1]
    ELSE Join(Parts(answers), <<"\n", "\n">>)

\* total_tokens or None
TokensOrNone(total) == IF total # 0 THEN PyI(total) ELSE None

\* a QueryResult whose page_count counts the blocks of the combined answer
QueryResultCountingBlocks(answers, total) ==
    [answer |-> CombineAnswers(answers),
     tokens_used |-> TokensOrNone(total),
     page_count |-> Len(Parts(answers))]

\* the QueryResult of core.py 218-226 (question, timestamp, model and path left out)
QueryResult(answers, total) ==
    [answer |-> CombineAnswers(answers),
     tokens_used |-> TokensOrNone(total),
     page_count |-> Len(answers)]

\* the audit entry of _log_query / of extract_structured_data
AuditEntry(kind, n) == [kind |-> kind, page_count |-> n]

\* a JSON document is carried in a text as one element; these are the documents
JsonName == "{\"name\": \"a\"}"

JsonAllergies == "{\"Allergies\": [\"b\"]}"

JsonList == "[]"

\* json.loads(text) for a stripped text
JsonLoads(text) ==
    IF Len(text) # 1 THEN Raised(JSONDecodeError)
    ELSE CASE text[1] = JsonName      -> Returned(PyD(Put(EmptyMap, KeyName, PyS(<<"a">>))))
           [] text[1] = JsonAllergies -> Returned(PyD(Put(EmptyMap, KeyAllergies,
                                                          PyL(<< PyS(<<"b">>) >>))))
           [] text[1] = JsonList      -> Returned(PyL(<<>>))
           [] OTHER                   -> Raised(JSONDecodeError)

\* the character U+0060, which a TLA+ string cannot hold
Backtick == "U+0060"

\* the markdown code fence, three backticks
Fence == <<Backtick, Backtick, Backtick>>

\* the text before the first fence of s (all of s if it has none)
RECURSIVE UpToFence(_)
UpToFence(s) ==
    IF s = <<>> \/ StartsWith(s, Fence) THEN <<>>
    ELSE <<Head(s)>> \o UpToFence(Tail(s))

\* text[4:] (core.py 254)
DropFour(s) == SubSeq(s, 5, Len(s))

\* _parse_extraction_response (core.py 246-256): the parsed value or JSONDecodeError.
\* A text that starts with a fence always splits into two parts or more, and
\* parts[1] is what lies between the first fence and the next.
ParseExtractionResponse(response_text) ==
    LET text   == Strip(response_text)
        inner  == UpToFence(SubSeq(text, Len(Fence) + 1, Len(text)))
        nolang == IF StartsWith(inner, <<"j", "s", "o", "n">>) THEN DropFour(inner) ELSE inner
    IN  JsonLoads(Strip(IF StartsWith(text, Fence) THEN nolang ELSE text))

(***************************************************************************)
(* query and extract_structured_data as state machines over the page       *)
(* generator, the analyzer and the merge.                                  *)
(***************************************************************************)
\* message.content of the answers to a question
AnswerContents == { None, PyS(<<" ">>), PyS(<<"a">>), PyS(<<"b">>) }

\* what the API may answer to a call made by query
QueryResponses ==
    { ApiResponse(c, u) : c \in AnswerContents, u \in { NoUsage, Usage(0), Usage(2) } }
    \cup { ApiResponse(PyS(<<"a">>), None), ApiFailure }

\* message.content of the answers to an extraction prompt: bare JSON, fenced JSON
\* with and without the language tag, a JSON value that is no mapping, and text
\* that is no JSON
ExtractContents ==
    { None,
      PyS(<<JsonName>>),
      PyS(Fence \o <<"j", "s", "o", "n", "\n", JsonAllergies, "\n">> \o Fence),
      PyS(<<" ">> \o Fence \o <<"\n", JsonName, "\n">> \o Fence \o <<"\n">>),
      PyS(<<JsonList>>),
      PyS(<<"n", "o">>) }

\* what the API may answer to a call made by extract_structured_data
ExtractResponses == { ApiResponse(c, Usage(2)) : c \in ExtractContents } \cup { ApiFailure }

\* the documents the operations are run on: pdfs of every length, with and without
\* a page that fails to render, tiffs of every length, a png, a file of no
\* supported type, a missing path
PipelineDocs ==
    { d \in Docs :
        \/ d.fmt = "pdf" /\ d.suffix = <<".", "p", "d", "f">>
        \/ d.fmt = "tiff" /\ d.suffix = <<".", "t", "i", "f">> /\ d.mode = "RGB"
                          /\ StartsWith(d.head, TIFF_II) /\ d.corrupt = {}
        \/ d.fmt = "png" /\ d.suffix = <<".", "p", "n", "g">> /\ d.mode = "RGB"
        \/ d.fmt = "none" /\ d.suffix = <<".", "x", "y", "z">> /\ d.head = <<>> }

\* the page lists of a direct call of _merge_extracted_pages
DirectPageLists ==
    UNION { [1..n -> { PyD(Put(EmptyMap, KeyName, PyS(<<"a">>))), PyL(<<>>) }] :
            n \in 0..MaxPageDicts }

\* query(document, question, max_pages) or extract_structured_data(document,
\* fields, max_pages) has been entered: the generator exists, nothing has run
OpEntered ==
    /\ op \in {"query", "extract"}
    /\ opc = "pull"
    /\ enable_audit_log \in BOOLEAN
    /\ page_answers = <<>>
    /\ total_tokens = 0
    /\ analysed = <<>>
    /\ responses = <<>>
    /\ op_result = NotCalled
    /\ audit = <<>>
    /\ doc \in PipelineDocs
    /\ max_pages \in Caps
    /\ GenCreated
    /\ det_result = NotCalled
    /\ cnt_result = NotCalled
    /\ MergeIdle

\* _merge_extracted_pages(page_dicts) has been called on its own
MergeEntered ==
    /\ page_dicts \in DirectPageLists
    /\ mpos = 1
    /\ merged = EmptyMap
    /\ mpc = "loop"
    /\ result = NoResult
    /\ LoaderIdle
    /\ PipelineIdle

DocInit == OpEntered \/ MergeEntered

\* an emptiness test that never finds the list empty
NeverEmpty(l) == FALSE

\* `not page_answers`, `not page_dicts`
NoPages(l) == l = <<>>

\* the for statement asks get_pages for the next page (core.py 184, 311); an
\* exception of the generator leaves the operation, its end leaves the loop
OpPull ==
    /\ opc = "pull"
    /\ \E r \in (IF gpc = "created" THEN FirstPull(doc, max_pages)
                 ELSE { NextPull(max_pages, doc_type, idx, count, container) }) :
          /\ GenApply(r)
          /\ opc' = CASE r.pc = "suspended" -> "analyze"
                      [] r.pc = "finished"  -> "finish"
                      [] OTHER              -> "raised"
          /\ op_result' = IF r.pc = "raised" THEN Raised(r.err) ELSE op_result
    /\ UNCHANGED <<doc, max_pages, det_result, cnt_result>>
    /\ UNCHANGED mvars
    /\ UNCHANGED <<op, enable_audit_log, page_answers, total_tokens, analysed, responses,
                   audit>>

\* the index of the page the loop body holds
CurrentPage == yielded[Len(yielded)].index

\* the loop body of query (core.py 185-199)
QAnalyze ==
    /\ op = "query"
    /\ opc = "analyze"
    /\ \E resp \in QueryResponses :
          LET o == QuerySingleImage(resp)
          IN  /\ analysed' = Append(analysed, CurrentPage)
              /\ responses' = Append(responses, resp)
              /\ IF o.st = "raised"
                 THEN /\ opc' = "raised"
                      /\ op_result' = Raised(o.err)
                      /\ UNCHANGED <<page_answers, total_tokens>>
                 ELSE /\ page_answers' = Append(page_answers, o.val.answer)
                      /\ total_tokens' = IF o.val.tokens_used.t # "none"
                                         THEN total_tokens + o.val.tokens_used.n
                                         ELSE total_tokens
                      /\ opc' = "pull"
                      /\ UNCHANGED op_result
    /\ UNCHANGED <<op, enable_audit_log, audit>>
    /\ UNCHANGED lvars
    /\ UNCHANGED mvars

\* query after the loop (core.py 201-231)
QFinish ==
    /\ op = "query"
    /\ opc = "finish"
    /\ IF NoPages(page_answers)
       THEN /\ opc' = "raised"
            /\ op_result' = Raised(NoPagesProcessed)
            /\ UNCHANGED audit
       ELSE /\ opc' = "returned"
            /\ op_result' = Returned(QueryResult(page_answers, total_tokens))
            /\ audit' = IF enable_audit_log
                        THEN Append(audit, AuditEntry("QUERY", Len(page_answers)))
                        ELSE audit
    /\ UNCHANGED <<op, enable_audit_log, page_answers, total_tokens, analysed, responses>>
    /\ UNCHANGED lvars
    /\ UNCHANGED mvars

\* the loop body of extract_structured_data (core.py 312-325)
XAnalyze ==
    /\ op = "extract"
    /\ opc = "analyze"
    /\ \E resp \in ExtractResponses :
          LET o == QuerySingleImage(resp)
          IN  /\ analysed' = Append(analysed, CurrentPage)
              /\ responses' = Append(responses, resp)
              /\ IF o.st = "raised"
                 THEN /\ opc' = "raised"
                      /\ op_result' = Raised(o.err)
                      /\ UNCHANGED page_dicts
                 ELSE LET parsed == ParseExtractionResponse(o.val.answer)
                      IN  /\ page_dicts' = IF parsed.st = "returned"
                                           THEN Append(page_dicts, parsed.val)
                                           ELSE page_dicts
                          /\ opc' = "pull"
                          /\ UNCHANGED op_result
    /\ UNCHANGED <<op, enable_audit_log, page_answers, total_tokens, audit>>
    /\ UNCHANGED <<mpos, merged, mpc, result>>
    /\ UNCHANGED lvars

\* extract_structured_data after the loop (core.py 327-330): {} at once, or the
\* call of _merge_extracted_pages
XFinish ==
    /\ op = "extract"
    /\ opc = "finish"
    /\ IF NoPages(page_dicts)
       THEN /\ opc' = "returned"
            /\ op_result' = Returned(PyD(EmptyMap))
            /\ UNCHANGED <<mpos, merged, mpc, result>>
       ELSE /\ opc' = "merging"
            /\ mpos' = 1
            /\ merged' = EmptyMap
            /\ mpc' = "loop"
            /\ UNCHANGED <<op_result, result>>
    /\ UNCHANGED <<op, enable_audit_log, page_answers, total_tokens, analysed, responses,
                   audit>>
    /\ UNCHANGED page_dicts
    /\ UNCHANGED lvars

\* extract_structured_data once the merge has returned (core.py 331-343)
XReturn ==
    /\ op = "extract"
    /\ opc = "merging"
    /\ mpc = "done"
    /\ opc' = "returned"
    /\ op_result' = Returned(result)
    /\ audit' = IF enable_audit_log
                THEN Append(audit, AuditEntry("EXTRACT", Len(page_dicts)))
                ELSE audit
    /\ UNCHANGED <<op, enable_audit_log, page_answers, total_tokens, analysed, responses>>
    /\ UNCHANGED lvars
    /\ UNCHANGED mvars

DocNext ==
    OpPull \/ QAnalyze \/ QFinish \/ XAnalyze \/ XFinish \/ MergeLoopStep \/ MergeReturn
    \/ XReturn

DocSpec == DocInit /\ [][DocNext]_vars

(***************************************************************************)
(* Properties of _merge_extracted_pages.                                   *)
(***************************************************************************)
\* the positions of page_dicts that hold a mapping
ValidIdx == { i \in DOMAIN page_dicts : page_dicts[i].t = "dict" }

\* the keys seen in the valid pages
KeysSeen == UNION { DOMAIN page_dicts[i].m : i \in ValidIdx }

\* a value that is non-null and non-blank after trimming
SuppliesText(v) == v.t # "none" /\ Strip(PyStr(v)) # <<>>

\* the valid pages that supply a non-empty value for k
Suppliers(k) ==
    { i \in ValidIdx : k \in DOMAIN page_dicts[i].m /\ SuppliesText(page_dicts[i].m[k]) }

SetMin(S) == CHOOSE x \in S : \A y \in S : x <= y

\* C1: when the merge has returned, every scalar-like key seen holds the value of
\* the first page (in page order) whose value for it is non-null and non-blank
\* after trimming, and is absent when no page supplies such a value.
C1_FirstNonEmptyWins ==
    mpc = "done" =>
        \A k \in KeysSeen :
            ~IsListLike(k) =>
                IF Suppliers(k) = {}
                THEN k \notin DOMAIN result.m
                ELSE /\ k \in DOMAIN result.m
                     /\ result.m[k] = page_dicts[SetMin(Suppliers(k))].m[k]

\* one page's contribution to a list-like key: a list as it is, a bare scalar as
\* a one-element list, null and the empty string as nothing
Contribution(v) ==
    IF v.t = "list" THEN v.l
    ELSE IF v.t = "none" \/ (v.t = "str" /\ v.s = <<>>) THEN <<>>
    ELSE <<v>>

\* the contributions to k of the pages 1..n, concatenated in page order
RECURSIVE Concatenated(_, _)
Concatenated(k, n) ==
    IF n = 0 THEN <<>>
    ELSE Concatenated(k, n - 1)
         \o (IF n \in ValidIdx /\ k \in DOMAIN page_dicts[n].m
             THEN Contribution(page_dicts[n].m[k]) ELSE <<>>)

\* each entry trimmed, then the empty entries dropped
TrimmedNonEmpty(l) ==
    LET present == SelectSeq(l, LAMBDA x : x.t # "none")
        trimmed == [i \in 1..Len(present) |-> PyS(Strip(PyStr(present[i])))]
    IN  SelectSeq(trimmed, LAMBDA x : x.s # <<>>)

\* C2: when the merge has returned, every list-like key seen holds the pages'
\* values concatenated in page order, each string trimmed, empty entries dropped,
\* duplicates removed keeping first occurrences; so it holds no empty string.
C2_ListLikeMerge ==
    mpc = "done" =>
        \A k \in KeysSeen :
            IsListLike(k) =>
                /\ k \in DOMAIN result.m
                /\ result.m[k] = PyL(Dedupe(TrimmedNonEmpty(Concatenated(k, Len(page_dicts)))))

\* page_dicts with the entries that are not mappings removed
OnlyMappings == SelectSeq(page_dicts, LAMBDA d : d.t = "dict")

\* C3: entries that are not mappings never raise and contribute nothing: the
\* merge never raises, and what it returns is what merging the list without its
\* non-mapping entries returns.
C3_MalformedTolerated ==
    /\ mpc # "raised"
    /\ mpc = "done" => result = PyD(MergePages(OnlyMappings))

\* a returned merge of a list with a non-mapping entry before a mapping that
\* contributed a field
C3_Witness ==
    /\ mpc = "done"
    /\ \E i, j \in DOMAIN page_dicts :
          /\ i < j
          /\ page_dicts[i].t # "dict"
          /\ j \in ValidIdx
          /\ DOMAIN page_dicts[j].m # {}
    /\ DOMAIN result.m # {}

\* C4 as stated: when the merge has returned, the keys of the merged mapping are
\* the union of the keys seen in the valid pages.
C4_KeysAreUnion == mpc = "done" => DOMAIN result.m = KeysSeen

\* C4 amended: when the merge has returned, the keys of the merged mapping are
\* the list-like keys seen in the valid pages together with the scalar-like keys
\* for which some valid page supplies a non-null, non-blank value.
C4_KeysAmended ==
    mpc = "done" =>
        DOMAIN result.m = { k \in KeysSeen : IsListLike(k) \/ Suppliers(k) # {} }

\* a returned merge that kept one key and left out a scalar-like key it has seen
C4_Witness ==
    /\ mpc = "done"
    /\ DOMAIN result.m # {}
    /\ \E k \in KeysSeen : ~IsListLike(k) /\ k \notin DOMAIN result.m
\* C18: merging the one-element list [merge(P)] gives merge(P) again, and the
\* merge leaves P as it was passed in.
C18_IdempotentInputUntouched ==
    mpc = "done" =>
        /\ MergePages(<<result>>) = result.m
        /\ page_dicts \in PageLists

(***************************************************************************)
(* Properties of the loader.                                               *)
(***************************************************************************)
\* the type a container format belongs to
Family(fmt) == IF fmt \in {"pdf", "tiff"} THEN fmt ELSE "image"

\* a document a decoder reads, classified as the type of its format
WellFormed(d) ==
    /\ d.exists
    /\ d.fmt # "none"
    /\ d.corrupt = {}
    /\ DetectDocumentType(d) = Returned(Family(d.fmt))

\* N: the real pages of a document
RealPages(d) == IF d.fmt \in {"pdf", "tiff"} THEN d.frames ELSE 1

\* min(k, N), or N with no cap
ExpectedPages(d, cap) ==
    IF cap.t = "none" THEN RealPages(d)
    ELSE IF cap.n < RealPages(d) THEN cap.n ELSE RealPages(d)

\* C5: for a document with N real pages and a cap k >= 0, the stream raises
\* nothing, its pages carry the indices 0, 1, 2, ... in order, and when it is
\* fully consumed it has yielded exactly min(k, N) pages (N with no cap).
C5_CappedStream ==
    WellFormed(doc) =>
        /\ gpc # "raised"
        /\ \A i \in 1..Len(yielded) : yielded[i].index = i - 1
        /\ Len(yielded) <= ExpectedPages(doc, max_pages)
        /\ gpc = "finished" => Len(yielded) = ExpectedPages(doc, max_pages)

\* C6: for a supported document, get_page_count returns an integer >= 0 that
\* equals the number of pages get_pages yields with no cap when fully consumed.
C6_CountAgreesWithStream ==
    (WellFormed(doc) /\ cnt_result.st # "notcalled") =>
        /\ cnt_result.st = "returned"
        /\ cnt_result.val >= 0
        /\ (max_pages.t = "none" /\ gpc = "finished") => cnt_result.val = Len(yielded)

\* RIFF with WEBP at offset 8
IsWebpHeader(b) ==
    /\ StartsWith(b, WEBP_SIGNATURE)
    /\ Len(b) >= 12
    /\ SubSeq(b, 9, 12) = WEBP_TAG

\* the type of the signature the leading bytes match, by the magic-byte table
SignatureType(b) ==
    IF StartsWith(b, PDF_SIGNATURE) THEN "pdf"
    ELSE IF StartsWith(b, TIFF_II) \/ StartsWith(b, TIFF_MM) THEN "tiff"
    ELSE IF StartsWith(b, PNG_SIGNATURE) \/ StartsWith(b, JPEG_SIGNATURE) \/ IsWebpHeader(b)
    THEN "image"
    ELSE "none"

\* the type of the lower-cased extension, by the table's extension fallback
ExtensionType(sfx) ==
    IF Lower(sfx) \in PDF_EXTENSIONS THEN "pdf"
    ELSE IF Lower(sfx) \in TIFF_EXTENSIONS THEN "tiff"
    ELSE IF Lower(sfx) \in IMAGE_EXTENSIONS THEN "image"
    ELSE "none"

\* C7: when the leading bytes of an existing file match a recognised signature,
\* detect_document_type returns the type of that signature whatever the
\* extension; the extension decides only when no signature matches.
C7_SignaturePriority ==
    (doc.exists /\ det_result.st # "notcalled") =>
        IF SignatureType(doc.head) # "none"
        THEN det_result = Returned(SignatureType(doc.head))
        ELSE ExtensionType(doc.suffix) # "none" =>
                 det_result = Returned(ExtensionType(doc.suffix))

\* C8: detect_document_type of an existing file raises the unsupported-type error
\* exactly when the leading bytes match no signature of the table and the
\* extension is none of the recognised ones; otherwise it returns a type.
C8_UnsupportedExactly ==
    (doc.exists /\ det_result.st # "notcalled") =>
        IF SignatureType(doc.head) = "none" /\ ExtensionType(doc.suffix) = "none"
        THEN det_result = Raised(UnsupportedType)
        ELSE det_result.st = "returned"

\* C9: for a path that does not exist, detect_document_type and get_page_count
\* raise the not-found error, and the page stream, whatever max_pages is, yields
\* no page, never ends as an empty sequence, and when pulled raises not-found.
C9_MissingPathFails ==
    ~doc.exists =>
        /\ det_result.st # "notcalled" => det_result = Raised(FileNotFound)
        /\ cnt_result.st # "notcalled" => cnt_result = Raised(FileNotFound)
        /\ yielded = <<>>
        /\ gpc \in {"created", "closed", "raised"}
        /\ gpc = "raised" => gerr = FileNotFound

\* all three operations have failed on a missing path, the stream with max_pages 0
C9_Witness ==
    /\ ~doc.exists
    /\ max_pages = PyI(0)
    /\ gpc = "raised"
    /\ det_result.st = "raised"
    /\ cnt_result.st = "raised"

\* C10: every page get_pages yields carries a PNG-encoded payload, and a single
\* image's bytes are passed through unchanged only if they are PNG-encoded.
C10_CanonicalPayload ==
    \A i \in 1..Len(yielded) :
        /\ StartsWith(yielded[i].payload.head, PNG_SIGNATURE)
        /\ (doc_type = "image" /\ yielded[i].payload = FilePayload(doc)) => doc.fmt = "png"

\* the generator has terminated: exhausted or capped, failed, or closed by the caller
Terminated == gpc \in {"finished", "raised", "closed"}

\* C14: a terminated page stream never leaves the container it opened open,
\* whichever way it ended (exhaustion, cap, close() by the caller, exception).
C14_ContainerReleased == Terminated => ~container.open

AnswerText(i) == IF responses[i].content.t = "str" THEN responses[i].content.s ELSE <<>>

\* empty or whitespace-only
IsBlank(t) == \A j \in 1..Len(t) : IsSpace(t[j])

\* the block of the i-th analysed page: the label with the page's 1-based
\* position in the document, then the page's text
Block(i) ==
    <<"-", "-", "-", " ", "P", "a", "g", "e", " ">> \o IntStr(analysed[i] + 1)
    \o <<" ", "-", "-", "-">> \o <<"\n">> \o AnswerText(i)

\* the blocks of the non-blank pages from the i-th on, a blank line between them
RECURSIVE BlocksFrom(_)
BlocksFrom(i) ==
    IF i > Len(responses) THEN <<>>
    ELSE IF IsBlank(AnswerText(i)) THEN BlocksFrom(i + 1)
    ELSE IF \A j \in (i + 1)..Len(responses) : IsBlank(AnswerText(j)) THEN Block(i)
    ELSE Block(i) \o <<"\n", "\n">> \o BlocksFrom(i + 1)

QueryReturned == op = "query" /\ opc = "returned"

\* C11: the combined answer of a query is the page's text verbatim when one page
\* was analysed, and otherwise the labelled blocks of the non-blank pages, in page
\* order, numbered by 1-based page position and joined by a blank line.
C11_AnswerCombination ==
    QueryReturned =>
        /\ op_result.st = "returned"
        /\ op_result.val.answer = IF Len(responses) = 1 THEN AnswerText(1) ELSE BlocksFrom(1)

\* three pages, the second blank: two blocks, numbered 1 and 3
C11_Witness ==
    /\ QueryReturned
    /\ Len(responses) = 3
    /\ AnswerText(1) = <<"a">> /\ AnswerText(2) = <<" ">> /\ AnswerText(3) = <<"b">>
    /\ op_result.val.answer =
           <<"-", "-", "-", " ", "P", "a", "g", "e", " ", "1", " ", "-", "-", "-", "\n", "a",
             "\n", "\n",
             "-", "-", "-", " ", "P", "a", "g", "e", " ", "3", " ", "-", "-", "-", "\n", "b">>

\* C12: merging an empty list returns an empty mapping and raises nothing,
\* extract_structured_data returns an empty mapping when its loop ends with no
\* parsed page, and query raises, returning no QueryResult, when the page stream
\* yields no page.
C12_ZeroPages ==
    /\ (op = "none" /\ page_dicts = <<>>) =>
           /\ mpc # "raised"
           /\ mpc = "done" => result = PyD(EmptyMap)
    /\ (op = "extract" /\ gpc = "finished" /\ page_dicts = <<>> /\ opc # "finish") =>
           /\ opc = "returned"
           /\ op_result = Returned(PyD(EmptyMap))
    /\ (op = "query" /\ yielded = <<>>) =>
           /\ op_result.st # "returned"
           /\ (gpc = "finished" /\ opc # "finish") => op_result = Raised(NoPagesProcessed)

\* a query of a three-page pdf with max_pages = 0: the stream ends without a page
\* and query raises
C12_Witness ==
    /\ op = "query"
    /\ doc.fmt = "pdf" /\ doc.frames = 3 /\ max_pages = PyI(0)
    /\ gpc = "finished" /\ yielded = <<>>
    /\ opc = "raised"
    /\ op_result = Raised(NoPagesProcessed)

\* the analyzer call failed: the API raised, or the response's usage was None
CallFailed(resp) == resp.st = "error" \/ (resp.st = "ok" /\ resp.usage.t = "none")

CallError(resp) == IF resp.st = "error" THEN resp.err ELSE UsageIsNone

\* C13: a failed analyzer call on a page fails the whole operation with that
\* error: nothing is returned, nothing is written to the audit log, and no later
\* page is rendered or analysed; an operation fails only through the page stream,
\* the analyzer or (query) the absence of pages, so that a page of
\* extract_structured_data whose answer does not parse is dropped and the loop
\* goes on.
C13_FailFast ==
    /\ \A i \in 1..Len(responses) :
          CallFailed(responses[i]) =>
              /\ opc = "raised"
              /\ op_result = Raised(CallError(responses[i]))
              /\ audit = <<>>
              /\ i = Len(responses)
              /\ Len(analysed) = i
              /\ \A j \in 1..Len(rendered) : rendered[j] <= analysed[i]
              /\ gpc = "suspended"
    /\ (op # "none" /\ op_result.st = "raised") =>
          \/ gpc = "raised" /\ op_result.err = gerr
          \/ responses # <<>> /\ CallFailed(responses[Len(responses)])
          \/ op = "query" /\ gpc = "finished" /\ op_result.err = NoPagesProcessed
    /\ (op = "extract" /\ opc \in {"merging", "returned"}) =>
          Len(page_dicts) =
              Cardinality({ i \in 1..Len(responses) :
                              ParseExtractionResponse(AnswerText(i)).st = "returned" })

\* extract_structured_data on a three-page pdf with the audit log on: page 1 does
\* not parse and is dropped, the analyzer fails on page 2, page 3 is never rendered
C13_Witness ==
    /\ op = "extract"
    /\ enable_audit_log
    /\ doc.fmt = "pdf" /\ doc.frames = 3 /\ max_pages = None
    /\ Len(responses) = 2
    /\ ~CallFailed(responses[1])
    /\ ParseExtractionResponse(AnswerText(1)).st = "raised"
    /\ CallFailed(responses[2])
    /\ opc = "raised"
    /\ rendered = <<0, 1>>
    /\ audit = <<>>

\* the pages whose response reported a token count
Reporting == { i \in 1..Len(responses) : responses[i].usage.t = "usage" }

RECURSIVE SumReported(_)
SumReported(S) ==
    IF S = {} THEN 0
    ELSE LET i == CHOOSE x \in S : TRUE
         IN  responses[i].usage.total_tokens.n + SumReported(S \ {i})

\* C15: tokens_used of a QueryResult is the sum of the token counts the analyzer
\* reported over the analysed pages, and is null exactly when no page reported one.
C15_TokenTotal ==
    QueryReturned =>
        op_result.val.tokens_used =
            IF Reporting = {} THEN None ELSE PyI(SumReported(Reporting))

\* C17: query asks the stream for a page only when every page before it has been
\* analysed, and a successful query has called the analyzer exactly once for each
\* page yielded, in increasing page order, and reports as page_count the number
\* of pages analysed, blank ones included.
C17_AnalyzerCalls ==
    op = "query" =>
        /\ pulls <= Len(analysed) + 1
        /\ Len(yielded) <= Len(analysed) + 1
        /\ QueryReturned =>
              /\ Len(analysed) = Len(yielded)
              /\ \A i \in 1..Len(analysed) : analysed[i] = yielded[i].index
              /\ \A i \in 1..(Len(analysed) - 1) : analysed[i] < analysed[i + 1]
              /\ op_result.val.page_count = Len(analysed)

\* a two-page query whose second answer is blank: page_count is 2
C17_Witness ==
    /\ QueryReturned
    /\ analysed = <<0, 1>>
    /\ AnswerText(1) = <<"b">>
    /\ IsBlank(AnswerText(2))
    /\ op_result.val.page_count = 2
    /\ pulls = 3
====
